---------------------------- MODULE Spec2Model ----------------------------
(***************************************************************************)
(* A model of irfansharif/recorder: the Recorder facade (Next, record,     *)
(* step), the grammar parser (parseOperation, parseCommand,                *)
(* parseSeparator, parseOutput) and the serializer (Operation.String).     *)
(*                                                                         *)
(* A Go string is a sequence of one-character strings, so that trimming,   *)
(* splitting, line scanning and serialization are computed character by    *)
(* character, as the code computes them.                                   *)
(***************************************************************************)
EXTENDS Naturals, Sequences, FiniteSets, TLC

VARIABLES
    mode,      \* "nil" (r == nil), "recording" (r.writer != nil), "replay" (r.scanner != nil)
    writer,    \* the bytes written so far to r.writer
    source,    \* the bytes the io.Reader handed to WithReplay delivers
    readErr,   \* what that io.Reader returns after them: nil (io.EOF) or an error
    scanner,   \* r.scanner: [line |-> lines yielded so far, text |-> current line,
               \*             err |-> the read error the scanner has met]
    op,        \* r.op, the scratch operation of the parser
    last,      \* what the last call (Next, step, record) was given and returned
    recorded,  \* the operations the recording was made of, in order (history)
    calls,     \* number of calls made on the Recorder since it was constructed
    pc         \* position of the calling test or program

vars == <<mode, writer, source, readErr, scanner, op, last, recorded, calls, pc>>

-----------------------------------------------------------------------------
(* Characters and the strings of package "strings" the code uses.          *)

NL == "\n"
BS == "\\"
SEP == <<"-", "-", "-", "-">>

\* unicode.IsSpace, over the characters of the model
IsSpace(c) == c \in {" ", "\t", "\n", "\r"}

RECURSIVE TrimLeftSpace(_)
TrimLeftSpace(s) ==
    IF s = <<>> THEN s
    ELSE IF IsSpace(Head(s)) THEN TrimLeftSpace(Tail(s)) ELSE s

RECURSIVE TrimRightSpace(_)
TrimRightSpace(s) ==
    IF s = <<>> THEN s
    ELSE IF IsSpace(s[Len(s)]) THEN TrimRightSpace(SubSeq(s, 1, Len(s) - 1)) ELSE s

\* strings.TrimSpace
TrimSpace(s) == TrimRightSpace(TrimLeftSpace(s))

\* strings.HasPrefix
HasPrefix(s, p) == Len(s) >= Len(p) /\ SubSeq(s, 1, Len(p)) = p

\* strings.HasSuffix
HasSuffix(s, p) == Len(s) >= Len(p) /\ SubSeq(s, Len(s) - Len(p) + 1, Len(s)) = p

\* strings.TrimSuffix
TrimSuffix(s, p) == IF HasSuffix(s, p) THEN SubSeq(s, 1, Len(s) - Len(p)) ELSE s

\* strings.TrimRight(s, "\n")
RECURSIVE TrimRightNL(_)
TrimRightNL(s) ==
    IF s = <<>> THEN s
    ELSE IF s[Len(s)] = NL THEN TrimRightNL(SubSeq(s, 1, Len(s) - 1)) ELSE s

\* strings.Split(s, "\n"): never empty; Split("") is <<"">>
RECURSIVE SplitFrom(_, _)
SplitFrom(s, cur) ==
    IF s = <<>> THEN <<cur>>
    ELSE IF Head(s) = NL THEN <<cur>> \o SplitFrom(Tail(s), <<>>)
    ELSE SplitFrom(Tail(s), Append(cur, Head(s)))

SplitNL(s) == SplitFrom(s, <<>>)

\* The({e : x \in {v}}) is e with x bound to v, v evaluated once
The(S) == CHOOSE r \in S : TRUE

\* faulty variant: fmt.Fprint in place of fmt.Fprintln: no newline after the line
Fprint(buf, line) == buf \o line

\* fmt.Fprintln(&buf, line): the buffer with the line and a newline appended
Fprintln(buf, line) == buf \o line \o <<NL>>

-----------------------------------------------------------------------------
(* The line scanner: newScanner, Scan, Text.  Its file is not part of the  *)
(* sources at hand; it is modelled from section 4.1 of the specification   *)
(* as a bufio.Scanner with the default line splitter.                      *)

\* One line's content "with trailing line terminators stripped"
DropCR(l) == IF l # <<>> /\ l[Len(l)] = "\r" THEN SubSeq(l, 1, Len(l) - 1) ELSE l

\* The lines a scanner yields over text: a final empty segment is no line
ScanLines(text) ==
    The({ The({ [i \in 1..Len(kept) |-> DropCR(kept[i])]
              : kept \in {IF segs[Len(segs)] = <<>>
                          THEN SubSeq(segs, 1, Len(segs) - 1) ELSE segs}})
        : segs \in {SplitNL(text)}})

newScanner == [line |-> 0, text |-> <<>>, err |-> "nil"]

\* scan(): advance to the next line of ls; ok is false at end of stream, and
\* when the read fails, after the bytes read before the failure were yielded
\* (the scanner keeps the error; false is all the caller of scan() gets)
Scan(ls, sc) ==
    IF sc.line < Len(ls)
    THEN [ok |-> TRUE,
          sc |-> [line |-> sc.line + 1, text |-> ls[sc.line + 1], err |-> sc.err]]
    ELSE [ok |-> FALSE, sc |-> [line |-> sc.line, text |-> <<>>, err |-> readErr]]

-----------------------------------------------------------------------------
(* Operation.String                                                        *)

operation(command, output) == [command |-> command, output |-> output]

\* operation{}
zeroOp == operation(<<>>, <<>>)

\* the loop of String: some line of the right-trimmed output is empty
emptyLine(output) ==
    LET lines == SplitNL(TrimRightNL(output))
    IN  \E i \in 1..Len(lines) : lines[i] = <<>>

String(o) ==
    o.command \o <<NL>> \o SEP \o <<NL>>
    \o (IF emptyLine(o.output) THEN SEP \o <<NL>> ELSE <<>>)
    \o o.output
    \o (IF o.output # <<>> /\ ~HasSuffix(o.output, <<NL>>) THEN <<NL>> ELSE <<>>)
    \o (IF emptyLine(o.output) THEN SEP \o <<NL>> \o SEP \o <<NL>> ELSE <<>>)
    \o <<NL>>

-----------------------------------------------------------------------------
(* The grammar parser.  Each operator takes the lines of the source and    *)
(* the scanner, and returns what the function returns with the scanner it  *)
(* leaves behind.  An error is its message; "nil" is no error.             *)

nil == "nil"
ErrNoSeparator == "expected to find separator after command"
ErrNonBlank == "non-blank line after end of double ---- separator section"
ErrMissingClosing == "missing closing double ---- separators"
ErrCannotParse == "cannot parse command"
ErrMismatch == "expected command, got another"
ErrNotFound == "recording for command not found"
ErrNotRecording == "misconfigured recorder; not set to record"
ErrNotReplay == "misconfigured recorder; set to record, not replay"
ErrProduce == "error returned by the callback"
ErrWrite == "error returned by the writer"
ErrRead == "error returned by the reader"

GrammarErrors == {ErrNoSeparator, ErrNonBlank, ErrMissingClosing, ErrCannotParse}

\* faulty variant: a blank line is no command, which is an error
parseCommandNoBlank(line) ==
    IF TrimSpace(line) = <<>> THEN [cmd |-> <<>>, err |-> ErrCannotParse]
    ELSE [cmd |-> TrimSpace(line), err |-> nil]

\* parseCommand
parseCommand(line) ==
    LET trimmed == TrimSpace(line)
        cmd     == TrimSpace(trimmed)
    IN  IF trimmed = <<>> THEN [cmd |-> <<>>, err |-> nil]
        ELSE IF cmd = <<>> THEN [cmd |-> <<>>, err |-> ErrCannotParse]
        ELSE [cmd |-> cmd, err |-> nil]

\* faulty variant: the end of the source is taken for a separator
parseSeparatorOrEnd(ls, sc) ==
    The({
        IF s.ok /\ s.sc.text # SEP THEN [err |-> ErrNoSeparator, sc |-> s.sc]
        ELSE [err |-> nil, sc |-> s.sc]
        : s \in {Scan(ls, sc)}})

\* parseSeparator
parseSeparator(ls, sc) ==
    The({
        IF ~s.ok THEN [err |-> ErrNoSeparator, sc |-> s.sc]
        ELSE IF s.sc.text # SEP THEN [err |-> ErrNoSeparator, sc |-> s.sc]
        ELSE [err |-> nil, sc |-> s.sc]
        : s \in {Scan(ls, sc)}})

\* faulty variant: only the empty line ends a plain output
emptyLineOnly(line) == line = <<>>

\* parseOutput: the line that ends a plain output
blankLine(line) == TrimSpace(line) = <<>>

\* faulty variant: the last line of the source is added as it is, no newline
RECURSIVE plainOutputRawEnd(_, _, _, _)
plainOutputRawEnd(ls, sc, line, buf) ==
    IF blankLine(line) THEN [err |-> nil, output |-> buf, sc |-> sc]
    ELSE The({
             IF ~s.ok THEN [err |-> nil, output |-> buf \o line, sc |-> s.sc]
             ELSE plainOutputRawEnd(ls, s.sc, s.sc.text, Fprintln(buf, line))
             : s \in {Scan(ls, sc)}})

\* parseOutput, the loop that ends at the first blank line
RECURSIVE plainOutput(_, _, _, _)
plainOutput(ls, sc, line, buf) ==
    IF blankLine(line) THEN [err |-> nil, output |-> buf, sc |-> sc]
    ELSE The({
             IF ~b[1].ok THEN [err |-> nil, output |-> b[2], sc |-> b[1].sc]
             ELSE plainOutput(ls, b[1].sc, b[1].sc.text, b[2])
             : b \in {<<Scan(ls, sc), Fprintln(buf, line)>>}})

\* faulty variant: at the end of the source the lines read so far are the output
RECURSIVE escapedOutputToEnd(_, _, _)
escapedOutputToEnd(ls, sc, buf) ==
    The({
        IF ~s.ok THEN [err |-> nil, output |-> buf, sc |-> s.sc]
        ELSE IF s.sc.text # SEP
        THEN The({ escapedOutputToEnd(ls, s.sc, b)
                 : b \in {Fprintln(buf, s.sc.text)}})
        ELSE The({
                 IF second.err = nil
                 THEN The({
                          IF t.ok /\ t.sc.text # <<>>
                          THEN [err |-> ErrNonBlank, output |-> <<>>, sc |-> t.sc]
                          ELSE [err |-> nil, output |-> buf, sc |-> t.sc]
                          : t \in {Scan(ls, second.sc)}})
                 ELSE The({
                          escapedOutputToEnd(ls, second.sc, b)
                          : b \in {Fprintln(Fprintln(buf, s.sc.text), second.sc.text)}})
                 : second \in {parseSeparator(ls, s.sc)}})
        : s \in {Scan(ls, sc)}})

\* parseOutput, the loop that looks for two successive "----" lines
RECURSIVE escapedOutput(_, _, _)
escapedOutput(ls, sc, buf) ==
    The({
        IF ~s.ok THEN [err |-> ErrMissingClosing, output |-> <<>>, sc |-> s.sc]
        ELSE IF s.sc.text # SEP
        THEN The({ escapedOutput(ls, s.sc, b)
                 : b \in {Fprintln(buf, s.sc.text)}})
        ELSE The({
                 IF second.err = nil
                 THEN The({
                          IF t.ok /\ t.sc.text # <<>>
                          THEN [err |-> ErrNonBlank, output |-> <<>>, sc |-> t.sc]
                          ELSE [err |-> nil, output |-> buf, sc |-> t.sc]
                          : t \in {Scan(ls, second.sc)}})
                 ELSE The({
                          escapedOutput(ls, second.sc, b)
                          : b \in {Fprintln(Fprintln(buf, s.sc.text), second.sc.text)}})
                 : second \in {parseSeparator(ls, s.sc)}})
        : s \in {Scan(ls, sc)}})

\* faulty variant: the output is read, and the scanner is left on the separator
parseOutputRewound(ls, sc) ==
    The({
        LET line == IF s.ok THEN s.sc.text ELSE <<>>
            allowBlankLines == s.ok /\ line = SEP
        IN  The({ [err |-> out.err, output |-> out.output, sc |-> sc]
                : out \in {IF ~allowBlankLines THEN plainOutput(ls, s.sc, line, <<>>)
                           ELSE escapedOutput(ls, s.sc, <<>>)}})
        : s \in {Scan(ls, sc)}})

\* parseOutput
parseOutput(ls, sc) ==
    The({
        LET line == IF s.ok THEN s.sc.text ELSE <<>>
            allowBlankLines == s.ok /\ line = SEP
        IN  IF ~allowBlankLines THEN plainOutput(ls, s.sc, line, <<>>)
            ELSE escapedOutput(ls, s.sc, <<>>)
        : s \in {Scan(ls, sc)}})

\* faulty variant: the line joined so far is not trimmed before the next is added
RECURSIVE joinUntrimmed(_, _, _)
joinUntrimmed(ls, sc, line) ==
    IF ~HasSuffix(line, <<BS>>) THEN [line |-> line, sc |-> sc]
    ELSE The({
             IF ~s.ok THEN [line |-> line, sc |-> s.sc]
             ELSE The({ joinUntrimmed(ls, s.sc, joined)
                      : joined \in {TrimSuffix(line, <<BS>>) \o <<" ">> \o TrimSpace(s.sc.text)}})
             : s \in {Scan(ls, sc)}})

\* parseOperation, the loop joining lines that end in a backslash
RECURSIVE joinWrapped(_, _, _)
joinWrapped(ls, sc, line) ==
    IF ~HasSuffix(line, <<BS>>) THEN [line |-> line, sc |-> sc]
    ELSE The({
             IF ~s.ok THEN [line |-> line, sc |-> s.sc]
             ELSE The({ joinWrapped(ls, s.sc, joined)
                      : joined \in {TrimSpace(TrimSuffix(line, <<BS>>)) \o <<" ">> \o TrimSpace(s.sc.text)}})
             : s \in {Scan(ls, sc)}})

\* parseOperation, once a non-comment line is at hand: command, separator, output
parseFrom(ls, sc, line) ==
    The({
    The({
        IF c.err # nil
        THEN [again |-> FALSE, parsed |-> FALSE, err |-> c.err, op |-> zeroOp, sc |-> j.sc]
        ELSE IF c.cmd = <<>>
        THEN [again |-> TRUE, parsed |-> FALSE, err |-> nil, op |-> zeroOp, sc |-> j.sc]
        ELSE The({
                 IF sep.err # nil
                 THEN [again |-> FALSE, parsed |-> FALSE, err |-> sep.err,
                       op |-> operation(c.cmd, <<>>), sc |-> sep.sc]
                 ELSE The({
                          IF out.err # nil
                          THEN [again |-> FALSE, parsed |-> FALSE, err |-> out.err,
                                op |-> operation(c.cmd, <<>>), sc |-> out.sc]
                          ELSE [again |-> FALSE, parsed |-> TRUE, err |-> nil,
                                op |-> operation(c.cmd, out.output), sc |-> out.sc]
                          : out \in {parseOutput(ls, sep.sc)}})
                 : sep \in {parseSeparator(ls, j.sc)}})
        : c \in {parseCommand(j.line)}})
        : j \in {joinWrapped(ls, sc, line)}})

\* faulty variant: comment lines are not skipped
isCommentNever(line) == FALSE

\* parseOperation: a trimmed line that is a comment
isComment(line) == HasPrefix(line, <<"#">>)

\* parseOperation: o is r.op on entry
RECURSIVE parseOperation(_, _, _)
parseOperation(ls, sc, o) ==
    The({
        IF ~s.ok THEN [parsed |-> FALSE, err |-> nil, op |-> o, sc |-> s.sc]
        ELSE IF isComment(TrimSpace(s.sc.text)) THEN parseOperation(ls, s.sc, zeroOp)
        ELSE The({
                 IF p.again THEN parseOperation(ls, p.sc, zeroOp)
                 ELSE [parsed |-> p.parsed, err |-> p.err, op |-> p.op, sc |-> p.sc]
                 : p \in {parseFrom(ls, s.sc, TrimSpace(s.sc.text))}})
        : s \in {Scan(ls, sc)}})

-----------------------------------------------------------------------------
(* The Recorder facade: record, step and Next.  Each operator returns what *)
(* the method returns together with the fields of the Recorder and the     *)
(* sink as the call leaves them.                                           *)

\* Recorder.recording
recording == mode = "recording"

\* io.Writer.Write as the caller's sink may behave: all bytes and no error, or
\* an error after none or some of the bytes
WriteOutcomes == {"ok", "fail-none", "fail-short"}

Write(sink, bytes, w) ==
    IF w = "ok" THEN [sink |-> sink \o bytes, err |-> nil]
    ELSE IF w = "fail-none" THEN [sink |-> sink, err |-> ErrWrite]
    ELSE [sink |-> sink \o SubSeq(bytes, 1, Len(bytes) - 1), err |-> ErrWrite]

\* faulty variant: record writes whatever the mode
recordAnyMode(o, w) == Write(writer, String(o), w)

\* Recorder.record
record(o, w) ==
    IF ~recording THEN [err |-> ErrNotRecording, sink |-> writer]
    ELSE Write(writer, String(o), w)

\* faulty variant: the visitor accepts any command
matchAny(command, o) == nil

\* the visitor Next hands to step
matchCommand(command, o) == IF o.command # command THEN ErrMismatch ELSE nil

\* the visitors handed to step: Next's closure over the command it was called
\* with, and a visitor that returns err whatever the operation
compareVisitor(command) == [closure |-> "compare", command |-> command, err |-> nil]

fixedVisitor(err) == [closure |-> "fixed", command |-> <<>>, err |-> err]

\* f(r.op), the call of the visitor
callVisitor(f, o) == IF f.closure = "compare" THEN matchCommand(f.command, o) ELSE f.err

\* faulty variant: an operation the visitor refuses is left in the source
stepPutBack(f) ==
    IF recording
    THEN [found |-> FALSE, err |-> ErrNotReplay, visited |-> FALSE, op |-> op, sc |-> scanner]
    ELSE
      The({ The({
          IF p.err # nil
          THEN [found |-> FALSE, err |-> p.err, visited |-> FALSE, op |-> p.op, sc |-> p.sc]
          ELSE IF ~p.parsed
          THEN [found |-> FALSE, err |-> nil, visited |-> FALSE, op |-> p.op, sc |-> p.sc]
          ELSE IF callVisitor(f, p.op) # nil
          THEN [found |-> FALSE, err |-> callVisitor(f, p.op), visited |-> TRUE,
                op |-> p.op, sc |-> scanner]
          ELSE [found |-> TRUE, err |-> nil, visited |-> TRUE, op |-> p.op, sc |-> p.sc]
          : p \in {parseOperation(ls, scanner, op)}})
          : ls \in {ScanLines(source)}})

\* Recorder.step; f is the visitor
step(f) ==
    IF recording
    THEN [found |-> FALSE, err |-> ErrNotReplay, visited |-> FALSE, op |-> op, sc |-> scanner]
    ELSE
      The({ The({
          IF p.err # nil
          THEN [found |-> FALSE, err |-> p.err, visited |-> FALSE, op |-> p.op, sc |-> p.sc]
          ELSE IF ~p.parsed
          THEN [found |-> FALSE, err |-> nil, visited |-> FALSE, op |-> p.op, sc |-> p.sc]
          ELSE IF callVisitor(f, p.op) # nil
          THEN [found |-> FALSE, err |-> callVisitor(f, p.op), visited |-> TRUE, op |-> p.op, sc |-> p.sc]
          ELSE [found |-> TRUE, err |-> nil, visited |-> TRUE, op |-> p.op, sc |-> p.sc]
          : p \in {parseOperation(ls, scanner, op)}})
          : ls \in {ScanLines(source)}})

\* faulty variant: the output is dropped when the callback fails
passthroughChecked(f) ==
    [output |-> IF f.err # nil THEN <<>> ELSE f.output, err |-> f.err, produced |-> 1,
     found |-> FALSE, visited |-> FALSE, sink |-> writer, op |-> op, sc |-> scanner]

\* Recorder.Next on a nil Recorder: the callback's result as it is
passthrough(f) ==
    [output |-> f.output, err |-> f.err, produced |-> 1, found |-> FALSE,
     visited |-> FALSE, sink |-> writer, op |-> op, sc |-> scanner]

\* faulty variant: the callback's error is looked at only after recording
nextRecordingUnchecked(command, f, w) ==
    The({
        [output |-> IF rec.err # nil \/ f.err # nil THEN <<>> ELSE f.output,
         err |-> IF f.err # nil THEN f.err ELSE rec.err, produced |-> 1, found |-> FALSE,
         visited |-> FALSE, sink |-> rec.sink, op |-> op, sc |-> scanner]
        : rec \in {record(operation(command, f.output), w)}})

\* Recorder.Next on a recording Recorder
nextRecording(command, f, w) ==
    IF f.err # nil
    THEN [output |-> <<>>, err |-> f.err, produced |-> 1, found |-> FALSE,
          visited |-> FALSE, sink |-> writer, op |-> op, sc |-> scanner]
    ELSE The({
             [output |-> IF rec.err # nil THEN <<>> ELSE f.output,
              err |-> rec.err, produced |-> 1, found |-> FALSE,
              visited |-> FALSE, sink |-> rec.sink, op |-> op, sc |-> scanner]
             : rec \in {record(operation(command, f.output), w)}})

\* faulty variant: when the recording has no operation left, the callback is called
nextReplayFallback(command, f) ==
    The({
        IF st.err # nil
        THEN [output |-> <<>>, err |-> st.err, produced |-> 0, found |-> st.found,
              visited |-> st.visited, sink |-> writer, op |-> st.op, sc |-> st.sc]
        ELSE IF ~st.found
        THEN [output |-> f.output, err |-> f.err, produced |-> 1, found |-> FALSE,
              visited |-> st.visited, sink |-> writer, op |-> st.op, sc |-> st.sc]
        ELSE [output |-> st.op.output, err |-> nil, produced |-> 0, found |-> TRUE,
              visited |-> st.visited, sink |-> writer, op |-> st.op, sc |-> st.sc]
        : st \in {step(compareVisitor(command))}})

\* Recorder.Next on a replay Recorder; the callback f is not called
nextReplay(command, f) ==
    The({
        IF st.err # nil
        THEN [output |-> <<>>, err |-> st.err, produced |-> 0, found |-> st.found,
              visited |-> st.visited, sink |-> writer, op |-> st.op, sc |-> st.sc]
        ELSE IF ~st.found
        THEN [output |-> <<>>, err |-> ErrNotFound, produced |-> 0, found |-> FALSE,
              visited |-> st.visited, sink |-> writer, op |-> st.op, sc |-> st.sc]
        ELSE [output |-> st.op.output, err |-> nil, produced |-> 0, found |-> TRUE,
              visited |-> st.visited, sink |-> writer, op |-> st.op, sc |-> st.sc]
        : st \in {step(compareVisitor(command))}})

\* Recorder.Next; f is what the callback returns when called, w how the sink
\* answers a write
RecorderNext(command, f, w) ==
    IF mode = "nil" THEN passthrough(f)
    ELSE IF recording THEN nextRecording(command, f, w)
    ELSE nextReplay(command, f)

-----------------------------------------------------------------------------
(* Actions: one per call a program makes on a Recorder.                    *)

noProduce == [output |-> <<>>, err |-> nil]
noCall == [call |-> "none", command |-> <<>>, f |-> noProduce, w |-> "ok", visit |-> nil,
           output |-> <<>>, err |-> nil, found |-> FALSE, visited |-> FALSE,
           op |-> operation(<<>>, <<>>), produced |-> 0,
           sinkBefore |-> <<>>, lineBefore |-> 0]

\* what was recorded: the operation and the text written for it
entry(o, text) == [command |-> o.command, output |-> o.output, text |-> text]

\* r.Next(command, func() { return f.output, f.err })
NextCall(command, f, w) ==
    \E res \in {RecorderNext(command, f, w)} :
        /\ writer' = res.sink
        /\ scanner' = res.sc
        /\ op' = res.op
        /\ last' = [call |-> "Next", command |-> command, f |-> f, w |-> w, visit |-> nil,
                    output |-> res.output, err |-> res.err, found |-> res.found,
                    visited |-> res.visited, op |-> res.op, produced |-> res.produced,
                    sinkBefore |-> writer, lineBefore |-> scanner.line]
        /\ recorded' = IF recording /\ res.err = nil
                       THEN Append(recorded, entry(operation(command, f.output),
                                                   String(operation(command, f.output))))
                       ELSE recorded
        /\ calls' = calls + 1
        /\ UNCHANGED <<mode, source, readErr>>

\* r.step(func(op operation) error { return visit })
StepCall(visit) ==
    \E res \in {step(fixedVisitor(visit))} :
        /\ mode # "nil"
        /\ scanner' = res.sc
        /\ op' = res.op
        /\ last' = [call |-> "step", command |-> <<>>, f |-> noProduce, w |-> "ok",
                    visit |-> visit,
                    output |-> <<>>, err |-> res.err, found |-> res.found,
                    visited |-> res.visited, op |-> res.op, produced |-> 0,
                    sinkBefore |-> writer, lineBefore |-> scanner.line]
        /\ calls' = calls + 1
        /\ UNCHANGED <<mode, writer, source, readErr, recorded>>

\* r.record(o)
RecordCall(o, w) ==
    \E res \in {record(o, w)} :
        /\ mode # "nil"
        /\ writer' = res.sink
        /\ last' = [call |-> "record", command |-> o.command, f |-> noProduce, w |-> w,
                    visit |-> nil, output |-> o.output, err |-> res.err, found |-> FALSE,
                    visited |-> FALSE, op |-> o, produced |-> 0,
                    sinkBefore |-> writer, lineBefore |-> scanner.line]
        /\ recorded' = IF res.err = nil THEN Append(recorded, entry(o, String(o)))
                       ELSE recorded
        /\ calls' = calls + 1
        /\ UNCHANGED <<mode, source, readErr, scanner, op>>

\* New(WithReplay(buffer, name)) over the bytes a recording Recorder wrote
OpenReplay ==
    /\ mode = "recording"
    /\ mode' = "replay"
    /\ source' = writer
    /\ readErr' = nil
    /\ writer' = <<>>
    /\ scanner' = newScanner
    /\ op' = operation(<<>>, <<>>)
    /\ calls' = 0
    /\ UNCHANGED <<last, recorded>>

\* New(WithRecording(buffer)) over a new buffer
OpenRecording ==
    /\ mode' = "recording"
    /\ writer' = <<>>
    /\ scanner' = newScanner
    /\ op' = operation(<<>>, <<>>)
    /\ calls' = 0
    /\ UNCHANGED <<source, readErr, last, recorded>>

-----------------------------------------------------------------------------
(* Inputs.  Texts are built from lines; the sets are bounded by the number *)
(* of lines, operations and calls.                                         *)

MaxSegs == 4    \* newline-separated segments of an output handed to record
MaxLines == 4   \* lines of a hand-written source
MaxBody == 3    \* lines of the body of a hand-written escaped block
MaxOps == 2     \* operations of a well-formed recording
MaxCalls == 3   \* calls made on one replay Recorder
MaxSession == 2 \* calls of Next made on one recording or nil Recorder

\* all sequences over S of length lo..hi
SeqsOf(S, lo, hi) == UNION {[1..k -> S] : k \in lo..hi}

\* strings.Join(parts, "\n")
RECURSIVE JoinNL(_)
JoinNL(parts) ==
    IF Len(parts) = 0 THEN <<>>
    ELSE IF Len(parts) = 1 THEN parts[1]
    ELSE parts[1] \o <<NL>> \o JoinNL(Tail(parts))

\* the text whose lines are ls, each ended by a newline
RECURSIVE Unlines(_)
Unlines(ls) == IF Len(ls) = 0 THEN <<>> ELSE ls[1] \o <<NL>> \o Unlines(Tail(ls))

RECURSIVE Concat(_)
Concat(texts) == IF Len(texts) = 0 THEN <<>> ELSE texts[1] \o Concat(Tail(texts))

Commands == {<<"a">>, <<"b">>}
RoundTripCommands == Commands \cup {<<"a", " ", "b">>}

\* outputs handed to record: with and without a final newline, with interior
\* and trailing blank lines, with "----" lines
OutputSegs == {<<>>, <<"a">>, SEP}
Outputs == {JoinNL(segs) : segs \in SeqsOf(OutputSegs, 1, MaxSegs)}

\* what a callback may return
SessionOutputs == {<<>>, <<"a", NL>>, <<"a">>, <<"a", NL, NL, "b", NL>>, SEP \o <<NL>>}
Produce ==
    {[output |-> o, err |-> nil] : o \in SessionOutputs}
    \cup {[output |-> <<>>, err |-> ErrProduce], [output |-> <<"a", NL>>, err |-> ErrProduce]}

\* the callback handed to Next on a replay Recorder
ReplayProduce == {[output |-> <<"b", NL>>, err |-> nil]}

ErrVisitor == "error returned by the visitor"

\* the grammar's plain form of a record: command, "----", the output lines and
\* the blank line that ends them
PlainForm(command, lines) == Unlines(<<command, SEP>> \o lines \o <<<<>>>>)

\* the grammar's escaped form: command, "----", "----", the output lines, the
\* closing "----" pair and a blank line
EscapedForm(command, lines) ==
    Unlines(<<command, SEP, SEP>> \o lines \o <<SEP, SEP, <<>>>>)

\* hand-written sources: any lines of this vocabulary
LineVocab == {<<>>, SEP, <<"a">>, <<"#", "a">>, <<"a", BS>>, <<" ">>}
RawInputs ==
    {[source |-> Unlines(ls), recorded |-> <<>>] : ls \in SeqsOf(LineVocab, 0, MaxLines)}

\* well-formed recordings of up to MaxOps records, in plain and escaped form
PlainBodies == {<<>>, <<<<"a">>>>, <<<<"a">>, <<" ", "b">>>>}
EscapedBodies == {<<<<>>>>, <<<<"a">>, <<>>, <<"b">>>>}
Records ==
    {entry(operation(c, Unlines(b)), PlainForm(c, b)) : c \in Commands, b \in PlainBodies}
    \cup {entry(operation(c, Unlines(b)), EscapedForm(c, b)) :
             c \in Commands, b \in EscapedBodies}
RecordingInputs ==
    {[source |-> Concat([i \in 1..Len(rs) |-> rs[i].text]), recorded |-> rs] :
        rs \in SeqsOf(Records, 0, MaxOps)}

\* one escaped block with any body over blank, "a" and "----" lines, closed
\* well or badly
BodyVocab == {<<>>, <<"a">>, SEP}
Closings ==
    {<<SEP, SEP, <<>>>>, <<SEP, SEP>>, <<SEP, SEP, <<"a">>>>, <<SEP, SEP, <<" ">>>>, <<SEP>>, <<>>}
EscapedInputs ==
    {[source |-> Unlines(<<<<"a">>, SEP, SEP>> \o b \o cl),
      recorded |-> <<entry(operation(<<"a">>, Unlines(b)),
                           Unlines(<<<<"a">>, SEP, SEP>> \o b \o cl))>>] :
        b \in SeqsOf(BodyVocab, 0, MaxBody), cl \in Closings}

-----------------------------------------------------------------------------
(* Specification RoundTrip: an operation is recorded, the bytes written    *)
(* are read back by a new replay Recorder with one step, and the operation *)
(* read is recorded again (as TestRecorderMultiple does).                  *)

RoundTripInit ==
    /\ mode = "recording"
    /\ writer = <<>>
    /\ source = <<>>
    /\ readErr = nil
    /\ scanner = newScanner
    /\ op = zeroOp
    /\ last = noCall
    /\ recorded = <<>>
    /\ calls = 0
    /\ pc = "start"

RTRecord ==
    /\ pc = "start"
    /\ \E c \in RoundTripCommands, o \in Outputs : RecordCall(operation(c, o), "ok")
    /\ pc' = "written"

RTOpen ==
    /\ pc = "written"
    /\ OpenReplay
    /\ pc' = "reading"

RTStep ==
    /\ pc = "reading"
    /\ StepCall(nil)
    /\ pc' = "read"

RTReopen ==
    /\ pc = "read"
    /\ last.found
    /\ OpenRecording
    /\ pc' = "rewriting"

RTRerecord ==
    /\ pc = "rewriting"
    /\ RecordCall(last.op, "ok")
    /\ pc' = "rewritten"

RoundTripNext == RTRecord \/ RTOpen \/ RTStep \/ RTReopen \/ RTRerecord

RoundTrip == RoundTripInit /\ [][RoundTripNext]_vars

-----------------------------------------------------------------------------
(* Specification Session: a program makes up to MaxSession calls of Next  *)
(* on a nil Recorder or on a recording Recorder; the bytes recorded are    *)
(* then replayed by a new Recorder; pc is "replaying" as long as the       *)
(* commands are those recorded, in order, and "diverged" after another.    *)

SessionInit ==
    /\ mode \in {"nil", "recording"}
    /\ writer = <<>>
    /\ source = <<>>
    /\ readErr = nil
    /\ scanner = newScanner
    /\ op = zeroOp
    /\ last = noCall
    /\ recorded = <<>>
    /\ calls = 0
    /\ pc = "running"

SessionNext ==
    /\ pc = "running"
    /\ calls < MaxSession
    /\ \E c \in Commands, f \in Produce, w \in WriteOutcomes : NextCall(c, f, w)
    /\ pc' = pc

SessionOpen ==
    /\ pc = "running"
    /\ OpenReplay
    /\ pc' = "replaying"

SessionReplay ==
    /\ pc \in {"replaying", "diverged"}
    /\ calls <= Len(recorded)
    /\ \E c \in Commands, f \in ReplayProduce :
          /\ NextCall(c, f, "ok")
          /\ pc' = IF calls < Len(recorded) /\ c # recorded[calls + 1].command
                   THEN "diverged" ELSE pc

SessionStep == SessionNext \/ SessionOpen \/ SessionReplay

Session == SessionInit /\ [][SessionStep]_vars

-----------------------------------------------------------------------------
(* Specification Spec: a replay Recorder over a source (hand-written       *)
(* lines, a well-formed recording, or one escaped block), on which a       *)
(* program makes up to MaxCalls calls of Next and step.                    *)

Init ==
    /\ mode = "replay"
    /\ writer = <<>>
    /\ \E in \in RawInputs \cup RecordingInputs \cup EscapedInputs :
          /\ source = in.source
          /\ recorded = in.recorded
    /\ readErr = nil
    /\ scanner = newScanner
    /\ op = zeroOp
    /\ last = noCall
    /\ calls = 0
    /\ pc = "replaying"

ReplayNext ==
    /\ calls < MaxCalls
    /\ \E c \in Commands, f \in ReplayProduce : NextCall(c, f, "ok")
    /\ pc' = pc

ReplayStep ==
    /\ calls < MaxCalls
    /\ \E v \in {nil, ErrVisitor} : StepCall(v)
    /\ pc' = pc

Next == ReplayNext \/ ReplayStep

Spec == Init /\ [][Next]_vars

-----------------------------------------------------------------------------
(* Specification Misuse: a program calls step and record on a Recorder of  *)
(* either mode, up to MaxCalls times: the calls that fit the mode and the  *)
(* calls that do not.                                                      *)

MisuseOutputs == {<<>>, <<"a", NL>>}

MisuseInit ==
    /\ mode \in {"recording", "replay"}
    /\ writer = <<>>
    /\ \E in \in RecordingInputs :
          /\ source = IF mode = "replay" THEN in.source ELSE <<>>
          /\ recorded = IF mode = "replay" THEN in.recorded ELSE <<>>
    /\ readErr = nil
    /\ scanner = newScanner
    /\ op = zeroOp
    /\ last = noCall
    /\ calls = 0
    /\ pc = "running"

MisuseStep ==
    /\ calls < MaxCalls
    /\ \E v \in {nil, ErrVisitor} : StepCall(v)
    /\ pc' = pc

MisuseRecord ==
    /\ calls < MaxCalls
    /\ \E c \in Commands, o \in MisuseOutputs, w \in WriteOutcomes :
          RecordCall(operation(c, o), w)
    /\ pc' = pc

MisuseNext == MisuseStep \/ MisuseRecord

Misuse == MisuseInit /\ [][MisuseNext]_vars

-----------------------------------------------------------------------------
(* Specification Parse: a replay Recorder over hand-written lines with     *)
(* leading and trailing spaces, comments, continuations and separators, on *)
(* which a program makes up to MaxCalls calls of step and Next; pc is      *)
(* "corrupt" from the first call on that returned a grammar error.         *)

ParseVocab ==
    {<<>>, <<" ">>, SEP, <<"a">>, <<" ", "b">>, <<"#", "a">>, <<"a", " ", BS>>, <<BS>>}

ParseInit ==
    /\ mode = "replay"
    /\ writer = <<>>
    /\ \E ls \in SeqsOf(ParseVocab, 0, MaxLines) : source = Unlines(ls)
    /\ recorded = <<>>
    /\ readErr = nil
    /\ scanner = newScanner
    /\ op = zeroOp
    /\ last = noCall
    /\ calls = 0
    /\ pc = "replaying"

ParseStep ==
    /\ calls < MaxCalls
    /\ StepCall(nil)
    /\ pc' = IF last'.err \in GrammarErrors THEN "corrupt" ELSE pc

ParseNextCall ==
    /\ calls < MaxCalls
    /\ \E f \in ReplayProduce : NextCall(<<"a">>, f, "ok")
    /\ pc' = IF last'.err \in GrammarErrors THEN "corrupt" ELSE pc

ParseNext == ParseStep \/ ParseNextCall

Parse == ParseInit /\ [][ParseNext]_vars

-----------------------------------------------------------------------------
(* Specification Broken: a replay Recorder over a reader that delivers the *)
(* first bytes of a well-formed recording and then fails; a program makes  *)
(* up to MaxCalls calls of step and Next.                                  *)

\* up to MaxOps - 1 records and the first n bytes of one more
BrokenSources ==
    UNION {{Concat([i \in 1..Len(rs) |-> rs[i].text]) \o SubSeq(r.text, 1, n) :
               n \in 0..Len(r.text)} :
           rs \in SeqsOf(Records, 0, MaxOps - 1), r \in Records}

BrokenInit ==
    /\ mode = "replay"
    /\ writer = <<>>
    /\ source \in BrokenSources
    /\ readErr = ErrRead
    /\ recorded = <<>>
    /\ scanner = newScanner
    /\ op = zeroOp
    /\ last = noCall
    /\ calls = 0
    /\ pc = "replaying"

BrokenStep ==
    /\ calls < MaxCalls
    /\ StepCall(nil)
    /\ pc' = pc

BrokenNextCall ==
    /\ calls < MaxCalls
    /\ \E c \in Commands, f \in ReplayProduce : NextCall(c, f, "ok")
    /\ pc' = pc

BrokenNext == BrokenStep \/ BrokenNextCall

Broken == BrokenInit /\ [][BrokenNext]_vars

-----------------------------------------------------------------------------
(* Specification Loops: the calls of Specification Parse, one loop         *)
(* iteration at a time.  pc is where the call in progress stands: "seek"   *)
(* is the head of parseOperation's loop, "wrap" the head of the loop that  *)
(* joins lines ending in a backslash, "command" the line after it, "plain" *)
(* and "escaped" the heads of parseOutput's two loops, "idle" is no call in *)
(* progress and "new" no Recorder yet.  last holds the locals of the call: *)
(* line and buf.  A program makes up to MaxSession calls, and the          *)
(* goroutine that made a call keeps running until the call returns.        *)

LoopVisitors == {fixedVisitor(nil), compareVisitor(<<"a">>)}

\* the lines of the sources: empty, separator, command, comment, wrapped
LoopVocab == {<<>>, SEP, <<"a">>, <<"#", "a">>, <<"a", BS>>}

\* step, from the return of parseOperation on
stepReturn(f, parsed, err, o) ==
    IF err # nil THEN [found |-> FALSE, err |-> err, visited |-> FALSE]
    ELSE IF ~parsed THEN [found |-> FALSE, err |-> nil, visited |-> FALSE]
    ELSE IF callVisitor(f, o) # nil
    THEN [found |-> FALSE, err |-> callVisitor(f, o), visited |-> TRUE]
    ELSE [found |-> TRUE, err |-> nil, visited |-> TRUE]

\* Next on a replay Recorder, from the return of step on
nextReturn(st) ==
    IF st.err = nil /\ ~st.found THEN [st EXCEPT !.err = ErrNotFound] ELSE st

\* what a call returns and leaves behind, as far as the loops decide it
outcome(res) ==
    [found |-> res.found, err |-> res.err, visited |-> res.visited, op |-> res.op,
     line |-> res.sc.line]

\* faulty variant: a line that ends in a backslash is joined without a scan
wrapNoScan(ls, sc, line) ==
    [more |-> HasSuffix(line, <<BS>>), sc |-> sc,
     line |-> TrimSpace(TrimSuffix(line, <<BS>>)) \o <<" ">>]

\* parseOperation, the test and the body of the loop that joins wrapped lines
wrap(ls, sc, line) ==
    IF ~HasSuffix(line, <<BS>>) THEN [more |-> FALSE, sc |-> sc, line |-> line]
    ELSE The({
             IF ~s.ok THEN [more |-> FALSE, sc |-> s.sc, line |-> line]
             ELSE [more |-> TRUE, sc |-> s.sc,
                   line |-> TrimSpace(TrimSuffix(line, <<BS>>)) \o <<" ">>
                            \o TrimSpace(s.sc.text)]
             : s \in {Scan(ls, sc)}})

LoopsInit ==
    /\ mode = "nil"
    /\ writer = <<>>
    /\ source = <<>>
    /\ recorded = <<>>
    /\ readErr = nil
    /\ scanner = newScanner
    /\ op = zeroOp
    /\ last = [call |-> "none", f |-> fixedVisitor(nil), line |-> <<>>, buf |-> <<>>,
               found |-> FALSE, err |-> nil, visited |-> FALSE, op |-> zeroOp,
               lineBefore |-> 0, expect |-> outcome(step(fixedVisitor(nil)))]
    /\ calls = 0
    /\ pc = "new"

\* New(WithReplay(reader, name)) over a source of up to MaxLines lines
LoopsOpen ==
    /\ pc = "new"
    /\ mode' = "replay"
    /\ \E ls \in SeqsOf(LoopVocab, 0, MaxLines) : source' = Unlines(ls)
    /\ scanner' = newScanner
    /\ pc' = "idle"
    /\ UNCHANGED <<writer, readErr, recorded, op, last, calls>>

\* r.step(f) or, with the visitor that compares commands, r.Next is called
LoopsCall ==
    /\ pc = "idle"
    /\ calls < MaxSession
    /\ \E f \in LoopVisitors :
          last' = [call |-> IF f.closure = "compare" THEN "Next" ELSE "step",
                   f |-> f, line |-> <<>>, buf |-> <<>>,
                   found |-> FALSE, err |-> nil, visited |-> FALSE, op |-> op,
                   lineBefore |-> scanner.line,
                   expect |-> IF f.closure = "compare"
                              THEN outcome(nextReplay(f.command, noProduce))
                              ELSE outcome(step(f))]
    /\ pc' = "seek"
    /\ calls' = calls + 1
    /\ UNCHANGED <<mode, writer, source, readErr, recorded, scanner, op>>

\* parseOperation returns to step, and step, through Next or not, to the caller
Return(parsed, err, o, sc) ==
    /\ pc' = "idle"
    /\ scanner' = sc
    /\ op' = o
    /\ \E st \in {stepReturn(last.f, parsed, err, o)} :
       \E res \in {IF last.call = "Next" THEN nextReturn(st) ELSE st} :
          last' = [last EXCEPT !.found = res.found, !.err = res.err,
                               !.visited = res.visited, !.op = o]
    /\ UNCHANGED <<mode, writer, source, readErr, recorded, calls>>

\* a step inside a call that returns nothing yet
Goto(label, sc, o, line, buf) ==
    /\ pc' = label
    /\ scanner' = sc
    /\ op' = o
    /\ last' = [last EXCEPT !.line = line, !.buf = buf]
    /\ UNCHANGED <<mode, writer, source, readErr, recorded, calls>>

\* parseOperation: an iteration of the loop that seeks a command
SeekIteration ==
    /\ pc = "seek"
    /\ \E s \in {Scan(ScanLines(source), scanner)} :
          /\ s.ok
          /\ IF isComment(TrimSpace(s.sc.text))
             THEN Goto("seek", s.sc, zeroOp, last.line, last.buf)
             ELSE Goto("wrap", s.sc, zeroOp, TrimSpace(s.sc.text), last.buf)

\* parseOperation: the source has no line left
SeekExit ==
    /\ pc = "seek"
    /\ \E s \in {Scan(ScanLines(source), scanner)} :
          /\ ~s.ok
          /\ Return(FALSE, nil, op, s.sc)

\* parseOperation: an iteration of the loop that joins wrapped lines
WrapIteration ==
    /\ pc = "wrap"
    /\ \E w \in {wrap(ScanLines(source), scanner, last.line)} :
          /\ w.more
          /\ Goto("wrap", w.sc, op, w.line, last.buf)

\* parseOperation: the line is whole, or the source has no line left
WrapExit ==
    /\ pc = "wrap"
    /\ \E w \in {wrap(ScanLines(source), scanner, last.line)} :
          /\ ~w.more
          /\ Goto("command", w.sc, op, w.line, last.buf)

\* parseOperation from parseCommand to the first scan of parseOutput
CommandStep ==
    /\ pc = "command"
    /\ \E ls \in {ScanLines(source)} :
       \E c \in {parseCommand(last.line)} :
          IF c.err # nil THEN Return(FALSE, c.err, op, scanner)
          ELSE IF c.cmd = <<>> THEN Goto("seek", scanner, op, last.line, last.buf)
          ELSE \E sep \in {parseSeparator(ls, scanner)} :
                  IF sep.err # nil
                  THEN Return(FALSE, sep.err, operation(c.cmd, <<>>), sep.sc)
                  ELSE \E s \in {Scan(ls, sep.sc)} :
                          IF s.ok /\ s.sc.text = SEP
                          THEN Goto("escaped", s.sc, operation(c.cmd, <<>>), SEP, <<>>)
                          ELSE Goto("plain", s.sc, operation(c.cmd, <<>>),
                                    IF s.ok THEN s.sc.text ELSE <<>>, <<>>)

\* parseOutput: an iteration of the loop that ends at the first blank line
PlainIteration ==
    /\ pc = "plain"
    /\ ~blankLine(last.line)
    /\ \E s \in {Scan(ScanLines(source), scanner)} :
          /\ s.ok
          /\ Goto("plain", s.sc, op, s.sc.text, Fprintln(last.buf, last.line))

\* parseOutput: a blank line, or the source has no line left
PlainExit ==
    /\ pc = "plain"
    /\ \E s \in {Scan(ScanLines(source), scanner)} :
          IF blankLine(last.line)
          THEN Return(TRUE, nil, operation(op.command, last.buf), scanner)
          ELSE /\ ~s.ok
               /\ Return(TRUE, nil,
                         operation(op.command, Fprintln(last.buf, last.line)), s.sc)

\* parseOutput: an iteration of the loop that looks for two "----" lines
EscapedIteration ==
    /\ pc = "escaped"
    /\ \E ls \in {ScanLines(source)} :
       \E s \in {Scan(ls, scanner)} :
          /\ s.ok
          /\ IF s.sc.text # SEP
             THEN Goto("escaped", s.sc, op, s.sc.text, Fprintln(last.buf, s.sc.text))
             ELSE \E second \in {parseSeparator(ls, s.sc)} :
                     IF second.err = nil
                     THEN \E t \in {Scan(ls, second.sc)} :
                             IF t.ok /\ t.sc.text # <<>>
                             THEN Return(FALSE, ErrNonBlank, op, t.sc)
                             ELSE Return(TRUE, nil,
                                         operation(op.command, last.buf), t.sc)
                     ELSE Goto("escaped", second.sc, op, s.sc.text,
                               Fprintln(Fprintln(last.buf, s.sc.text), second.sc.text))

\* parseOutput: the source has no line left before the closing pair
EscapedExit ==
    /\ pc = "escaped"
    /\ \E s \in {Scan(ScanLines(source), scanner)} :
          /\ ~s.ok
          /\ Return(FALSE, ErrMissingClosing, op, s.sc)

\* the steps of a call in progress
LoopsRun ==
    \/ SeekIteration \/ SeekExit
    \/ WrapIteration \/ WrapExit
    \/ CommandStep
    \/ PlainIteration \/ PlainExit
    \/ EscapedIteration \/ EscapedExit

LoopsNext == LoopsOpen \/ LoopsCall \/ LoopsRun

Loops == LoopsInit /\ [][LoopsNext]_vars /\ WF_vars(LoopsRun)

-----------------------------------------------------------------------------
(* Properties.                                                             *)

\* the operation of an entry of the history
opOf(e) == operation(e.command, e.output)

\* the source is exactly the texts written for the recorded operations
SourceIsRecording == source = Concat([i \in 1..Len(recorded) |-> recorded[i].text])

\* no two successive "----" lines, and the last line is not "----"
NoSeparatorPair(lines) ==
    /\ \A i \in 1..Len(lines) - 1 : ~(lines[i] = SEP /\ lines[i + 1] = SEP)
    /\ Len(lines) > 0 => lines[Len(lines)] # SEP

\* a command as the grammar has it on one line
PlainCommand(c) ==
    /\ c # <<>>
    /\ TrimSpace(c) = c
    /\ ~HasPrefix(c, <<"#">>)
    /\ ~HasSuffix(c, <<BS>>)
    /\ \A i \in 1..Len(c) : c[i] # NL

\* entry e is a record of the grammar: the plain form with an output of
\* non-blank lines that does not start with "----", or the escaped form with
\* an output in which no "----" line is followed by "----" or ends the output
WellFormed(e) ==
    LET lines == ScanLines(e.output)
    IN  /\ PlainCommand(e.command)
        /\ e.output = Unlines(lines)
        /\ \/ /\ e.text = PlainForm(e.command, lines)
              /\ \A i \in 1..Len(lines) : TrimSpace(lines[i]) # <<>>
              /\ Len(lines) > 0 => lines[1] # SEP
           \/ /\ e.text = EscapedForm(e.command, lines)
              /\ NoSeparatorPair(lines)

WellFormedRecording ==
    /\ SourceIsRecording
    /\ \A i \in 1..Len(recorded) : WellFormed(recorded[i])

\* C1: round-trip law.  An operation with a trimmed, non-empty command and any
\* output, written with record and read back with one step on a new replay
\* Recorder, is found, without error, with the same command and output.
C1_RoundTripLaw ==
    pc = "read" =>
        /\ last.found
        /\ last.err = nil
        /\ last.op = opOf(recorded[1])

\* C2: record then replay is faithful.  Replaying the bytes of a recording
\* session with the recorded commands in order, the i-th Next returns no error
\* and the output the i-th recording Next returned; one further Next fails
\* with not-found.
C2_ReplayFaithful ==
    (pc = "replaying" /\ SourceIsRecording /\ last.call = "Next" /\ calls >= 1) =>
        IF calls <= Len(recorded)
        THEN last.err = nil /\ last.output = recorded[calls].output
        ELSE last.err = ErrNotFound

\* C3: idempotent re-serialization.  The text written for the operation that
\* was parsed from the text written for op is the text written for op.
C3_IdempotentReserialization ==
    pc = "rewritten" => writer = source

\* C4: ambiguity resolution.  In an escaped block closed by its "----" pair,
\* a body in which a "----" line is nowhere followed by another "----" line of
\* the body (the line may be the last of the body) is parsed as the output.
C4_LoneSeparatorIsContent ==
    (/\ Len(recorded) = 1
     /\ SourceIsRecording
     /\ LET body == ScanLines(recorded[1].output)
        IN  /\ recorded[1].text = EscapedForm(recorded[1].command, body)
            /\ \E i \in 1..Len(body) : body[i] = SEP
            /\ \A i \in 1..Len(body) - 1 : ~(body[i] = SEP /\ body[i + 1] = SEP)
     /\ calls = 1 /\ last.call = "step" /\ last.visit = nil) =>
        /\ last.found
        /\ last.err = nil
        /\ last.op.output = recorded[1].output

\* C5: multi-operation sequencing.  Over a recording of N well-formed records
\* (WellFormed, plain or escaped, in any mix) the i-th call, for i <= N, meets
\* the i-th operation: a step with an accepting visitor returns found = true,
\* no error, and delivers its command and output; call N + 1 returns
\* found = false and no error.
C5_Sequencing ==
    (WellFormedRecording /\ mode = "replay" /\ last.call = "step" /\ last.visit = nil
     /\ calls >= 1) =>
        IF calls <= Len(recorded)
        THEN last.found /\ last.err = nil /\ last.op = opOf(recorded[calls])
        ELSE ~last.found /\ last.err = nil

\* C5 witness: a plain and an escaped record were delivered, and the third
\* step reported the end
C5_Witness ==
    /\ WellFormedRecording
    /\ Len(recorded) = 2
    /\ recorded[1].text = PlainForm(recorded[1].command, ScanLines(recorded[1].output))
    /\ recorded[1].output # <<>>
    /\ recorded[2].text = EscapedForm(recorded[2].command, ScanLines(recorded[2].output))
    /\ calls = 3
    /\ last.call = "step" /\ last.visit = nil
    /\ ~last.found /\ last.err = nil

\* C6: mismatch detection.  When the operation Next reads has a stored command
\* other than the command passed, Next returns the mismatch error and an empty
\* output.
C6_Mismatch ==
    (mode = "replay" /\ last.call = "Next" /\ last.visited
     /\ last.op.command # last.command) =>
        /\ last.err = ErrMismatch
        /\ last.output = <<>>

\* C6 witness: a stored operation with a non-empty output met another command
C6_Witness ==
    /\ mode = "replay" /\ last.call = "Next" /\ last.visited
    /\ last.op.command # last.command
    /\ last.op.output # <<>>
    /\ last.err = ErrMismatch

\* the lines left before the last call were blank lines and comments only
OnlyNoiseLeft ==
    LET lines == ScanLines(source)
    IN  \A i \in (last.lineBefore + 1)..Len(lines) :
            \/ TrimSpace(lines[i]) = <<>>
            \/ HasPrefix(TrimSpace(lines[i]), <<"#">>)

\* C7: not-found.  When only blank lines and comments, or nothing, remain,
\* step returns found = false and no error, and Next returns the not-found
\* error, which is no grammar error and not the mismatch error.
C7_NotFound ==
    (mode = "replay" /\ last.call # "none" /\ OnlyNoiseLeft) =>
        /\ last.call = "step" => ~last.found /\ last.err = nil
        /\ last.call = "Next" =>
              /\ last.err = ErrNotFound
              /\ last.err \notin GrammarErrors \cup {ErrMismatch, nil}
              /\ last.output = <<>>

\* C7 witness: Next ran over a blank line and a comment to the end
C7_Witness ==
    /\ mode = "replay" /\ last.call = "Next" /\ OnlyNoiseLeft
    /\ LET lines == ScanLines(source)
       IN  /\ \E i \in (last.lineBefore + 1)..Len(lines) : lines[i] = <<>>
           /\ \E i \in (last.lineBefore + 1)..Len(lines) : HasPrefix(lines[i], <<"#">>)
    /\ last.err = ErrNotFound

\* C8: passthrough.  On a nil Recorder Next calls the callback and returns its
\* output and error as they are, and neither sink nor source is touched.
C8_Passthrough ==
    (mode = "nil" /\ last.call = "Next") =>
        /\ last.output = last.f.output
        /\ last.err = last.f.err
        /\ last.produced = 1
        /\ writer = <<>> /\ writer = last.sinkBefore
        /\ scanner = newScanner /\ source = <<>>

\* C8 witness: a failing callback that returned an output as well
C8_Witness ==
    /\ mode = "nil" /\ last.call = "Next"
    /\ last.f.err = ErrProduce /\ last.f.output # <<>>
    /\ last.err = ErrProduce /\ last.output = last.f.output

\* C9: Next on a recording Recorder.  It returns an error exactly when the
\* callback does (that error, and nothing is written) or when the write fails;
\* otherwise the serialized operation is appended to the sink and the
\* callback's output is returned.
C9_Recording ==
    (mode = "recording" /\ last.call = "Next") =>
        /\ last.err # nil <=> (last.f.err # nil \/ last.w # "ok")
        /\ last.f.err # nil => last.err = last.f.err /\ writer = last.sinkBefore
        /\ (last.f.err = nil /\ last.w # "ok") => last.err = ErrWrite
        /\ last.err = nil =>
              /\ writer = last.sinkBefore \o String(operation(last.command, last.f.output))
              /\ last.output = last.f.output

\* C9 witness: a second operation appended after a first
C9_Witness ==
    /\ mode = "recording" /\ last.call = "Next" /\ last.err = nil
    /\ last.sinkBefore # <<>>
    /\ Len(writer) > Len(last.sinkBefore)

\* C10: replay replaces execution.  Next on a replay Recorder does not call the
\* callback, whatever it returns; on a recording or nil Recorder it calls it
\* once.
C10_ProduceCalls ==
    (last.call = "Next" /\ calls >= 1) =>
        last.produced = IF mode = "replay" THEN 0 ELSE 1

\* C10 witness: a replayed Next that ended in not-found
C10_Witness ==
    /\ mode = "replay" /\ last.call = "Next" /\ calls >= 1
    /\ last.err = ErrNotFound
    /\ last.produced = 0

\* C11: misconfiguration.  step on a recording Recorder returns found = false
\* and the misconfiguration error, the visitor is not called and the sink is
\* as it was; record on a replay Recorder returns the misconfiguration error
\* and no line of the source is consumed.
C11_Misconfiguration ==
    /\ (mode = "recording" /\ last.call = "step") =>
          /\ ~last.found /\ ~last.visited
          /\ last.err = ErrNotReplay
          /\ writer = last.sinkBefore
    /\ (mode = "replay" /\ last.call = "record") =>
          /\ last.err = ErrNotRecording
          /\ scanner.line = last.lineBefore
          /\ writer = last.sinkBefore

\* C11 witness: record was refused on a replay Recorder that had read one
\* operation and had lines left
C11_Witness ==
    /\ mode = "replay" /\ last.call = "record"
    /\ last.err = ErrNotRecording
    /\ last.lineBefore > 0
    /\ last.lineBefore < Len(ScanLines(source))

\* The grammar, read off the lines of the source.

\* a line skipped while seeking a command: blank, or a comment
IsNoise(line) == TrimSpace(line) = <<>> \/ HasPrefix(TrimSpace(line), <<"#">>)

\* a line that wraps over onto the next line
Wraps(line) == HasSuffix(TrimSpace(line), <<BS>>)

\* the last physical line of the command line that starts at line k
RECURSIVE CmdEnd(_, _)
CmdEnd(lines, k) ==
    IF Wraps(lines[k]) /\ k < Len(lines) THEN CmdEnd(lines, k + 1) ELSE k

\* what line i gives to the command line k..j: the line without the backslash
\* that wraps it, trimmed
Part(lines, i, j) ==
    IF i < j THEN TrimSpace(TrimSuffix(TrimSpace(lines[i]), <<BS>>))
    ELSE TrimSpace(lines[i])

\* the command line k..j is not empty
HasContent(lines, k, j) == \E i \in k..j : Part(lines, i, j) # <<>>

\* the first line, from line i on, of a command line that is not empty; 0 if
\* there is none
RECURSIVE SeekCommand(_, _)
SeekCommand(lines, i) ==
    IF i > Len(lines) THEN 0
    ELSE IF IsNoise(lines[i]) THEN SeekCommand(lines, i + 1)
    ELSE IF HasContent(lines, i, CmdEnd(lines, i)) THEN i
    ELSE SeekCommand(lines, CmdEnd(lines, i) + 1)

\* the command line the last call met: its first and last line (0 if none)
CmdFirst == SeekCommand(ScanLines(source), last.lineBefore + 1)
CmdLast == IF CmdFirst = 0 THEN 0 ELSE CmdEnd(ScanLines(source), CmdFirst)

\* C12: malformed detection.  When the command line the call meets (after
\* continuation joining) is followed by a line other than "----", or by the
\* end of the source, the call returns the separator error, found = false, and
\* the visitor is not called.
C12_Malformed ==
    (/\ mode = "replay" /\ last.call \in {"step", "Next"}
     /\ CmdFirst > 0
     /\ \/ CmdLast = Len(ScanLines(source))
        \/ ScanLines(source)[CmdLast + 1] # SEP) =>
        /\ ~last.found /\ ~last.visited
        /\ last.err = ErrNoSeparator
        /\ last.output = <<>>

\* C12 witness: a command wrapped over two lines was followed by the end of
\* the source
C12_Witness ==
    /\ mode = "replay" /\ last.call = "step"
    /\ CmdFirst > 0 /\ CmdLast > CmdFirst
    /\ ~Wraps(ScanLines(source)[CmdLast])
    /\ CmdLast = Len(ScanLines(source))
    /\ last.err = ErrNoSeparator

\* C13: the text written for an operation with the empty output is the plain
\* form: the command line, one "----" line and one blank line (for the command
\* "test-cmd": "test-cmd\n----\n\n").
C13_EmptyOutputPlain ==
    (pc = "written" /\ last.call = "record" /\ last.op.output = <<>>) =>
        writer = last.op.command \o <<NL>> \o SEP \o <<NL, NL>>

\* C14: no read failure is swallowed.  A step or Next during which a read of
\* the source failed returns an error: not found = false with no error, not
\* the not-found error, and not an operation.
C14_ReadFailure ==
    (mode = "replay" /\ last.call \in {"step", "Next"} /\ scanner.err # nil) =>
        /\ ~last.found
        /\ last.err \notin {nil, ErrNotFound}

\* C15: error is an absorbing state of the parser.  Once a step or Next on a
\* replay Recorder has returned a grammar error, every later step or Next on
\* it returns an error too: none finds an operation and none reports a clean
\* end of the source.
C15_ErrorAbsorbing ==
    (mode = "replay" /\ pc = "corrupt" /\ last.call \in {"step", "Next"}) =>
        /\ last.err # nil
        /\ ~last.found

\* the command line the last call met is followed by "----" and "----": an
\* escaped block, whose body starts at line BodyFirst
EscapedBlock ==
    /\ CmdFirst > 0
    /\ CmdLast + 2 <= Len(ScanLines(source))
    /\ ScanLines(source)[CmdLast + 1] = SEP
    /\ ScanLines(source)[CmdLast + 2] = SEP

BodyFirst == CmdLast + 3

\* the first line, from line i on, of two consecutive "----" lines; 0 if there
\* are none
RECURSIVE FirstPair(_, _)
FirstPair(lines, i) ==
    IF i + 1 > Len(lines) THEN 0
    ELSE IF lines[i] = SEP /\ lines[i + 1] = SEP THEN i
    ELSE FirstPair(lines, i + 1)

ClosingPair == FirstPair(ScanLines(source), BodyFirst)

\* C16: closing an escaped block.  The block is closed by the first two
\* consecutive "----" lines and by nothing else: the output is the lines before
\* them.  When the line after the pair is not empty the call fails with the
\* non-blank error; when it is empty or the source ends there the operation is
\* parsed.  When the source ends before a pair the call fails with the
\* missing-closing error and delivers no output.
C16_ClosingEscaped ==
    (mode = "replay" /\ last.call \in {"step", "Next"} /\ EscapedBlock) =>
        LET lines == ScanLines(source)
        IN  IF ClosingPair = 0
            THEN /\ last.err = ErrMissingClosing
                 /\ ~last.found /\ ~last.visited /\ last.output = <<>>
            ELSE IF ClosingPair + 2 <= Len(lines) /\ lines[ClosingPair + 2] # <<>>
            THEN /\ last.err = ErrNonBlank
                 /\ ~last.found /\ ~last.visited /\ last.output = <<>>
            ELSE /\ last.visited
                 /\ last.err \notin GrammarErrors
                 /\ last.op.output = Unlines(SubSeq(lines, BodyFirst, ClosingPair - 1))

\* C16 witness: a block with a body was closed and a line of one space
\* followed the pair
C16_Witness ==
    /\ mode = "replay" /\ last.call = "step" /\ EscapedBlock
    /\ ClosingPair > BodyFirst
    /\ ClosingPair + 2 <= Len(ScanLines(source))
    /\ ScanLines(source)[ClosingPair + 2] = <<" ">>
    /\ last.err = ErrNonBlank

\* the command line the last call met is followed by "----" and then by a
\* line other than "----", or by nothing: a plain output, from line PlainFirst
PlainBlock ==
    /\ CmdFirst > 0
    /\ CmdLast + 1 <= Len(ScanLines(source))
    /\ ScanLines(source)[CmdLast + 1] = SEP
    /\ \/ CmdLast + 2 > Len(ScanLines(source))
       \/ ScanLines(source)[CmdLast + 2] # SEP

PlainFirst == CmdLast + 2

\* the first blank line (empty, or of white space only) from line i on; the
\* line after the last if there is none
RECURSIVE FirstBlank(_, _)
FirstBlank(lines, i) ==
    IF i > Len(lines) THEN i
    ELSE IF TrimSpace(lines[i]) = <<>> THEN i
    ELSE FirstBlank(lines, i + 1)

PlainEnd == FirstBlank(ScanLines(source), PlainFirst)

\* C17: plain output form.  When the line after the separator is not "----",
\* the output is the lines from that line up to the first blank line (empty or
\* of white space only) or the end of the source, as they are, each ended by a
\* newline; the blank line is consumed and is no part of the output, and the
\* next operation is sought from the line after it.
C17_PlainOutput ==
    (mode = "replay" /\ last.call \in {"step", "Next"} /\ PlainBlock) =>
        LET lines == ScanLines(source)
        IN  /\ last.visited
            /\ last.err \notin GrammarErrors
            /\ last.op.output = Unlines(SubSeq(lines, PlainFirst, PlainEnd - 1))
            /\ scanner.line = IF PlainEnd <= Len(lines) THEN PlainEnd ELSE Len(lines)

\* C17 witness: an output line with a leading space, ended by a line of one
\* space
C17_Witness ==
    /\ mode = "replay" /\ last.call = "step" /\ PlainBlock
    /\ PlainEnd = PlainFirst + 1
    /\ PlainEnd <= Len(ScanLines(source))
    /\ ScanLines(source)[PlainFirst] = <<" ", "b">>
    /\ ScanLines(source)[PlainEnd] = <<" ">>
    /\ last.found /\ last.op.output = <<" ", "b", NL>>

\* what step returns on a new Recorder whose first line is the first line of
\* the command line the last call met
FromCommand ==
    parseOperation(ScanLines(source),
                   [line |-> CmdFirst - 1, text |-> <<>>, err |-> nil], zeroOp)

\* C18: seeking a command.  The blank lines and the comment lines before a
\* command line are skipped without error and change nothing of what the call
\* returns for the operation that follows: the call returns what it returns
\* when started at the command line.  The first other line becomes the
\* command, trimmed (joined with the lines it wraps onto, when it wraps).
C18_SeekCommand ==
    (mode = "replay" /\ last.call = "step" /\ last.visit = nil /\ CmdFirst > 0) =>
        /\ last.found = FromCommand.parsed
        /\ last.err = FromCommand.err
        /\ last.op = FromCommand.op
        /\ scanner.line = FromCommand.sc.line
        /\ last.op.command # <<>>
        /\ CmdFirst = CmdLast => last.op.command = TrimSpace(ScanLines(source)[CmdFirst])

\* C18 witness: an empty line and a comment were skipped and the operation
\* after them was found
C18_Witness ==
    /\ mode = "replay" /\ last.call = "step" /\ last.visit = nil
    /\ CmdFirst >= last.lineBefore + 3
    /\ \E i \in (last.lineBefore + 1)..(CmdFirst - 1) : ScanLines(source)[i] = <<>>
    /\ \E i \in (last.lineBefore + 1)..(CmdFirst - 1) : ScanLines(source)[i] = <<"#", "a">>
    /\ last.found /\ last.op.command = <<"a">>

\* the contents of the physical lines k..j of a command line
Parts(lines, k, j) == [i \in 1..(j - k + 1) |-> Part(lines, k + i - 1, j)]

\* parts joined by one space
RECURSIVE JoinSpace(_)
JoinSpace(parts) ==
    IF Len(parts) = 0 THEN <<>>
    ELSE IF Len(parts) = 1 THEN parts[1]
    ELSE parts[1] \o <<" ">> \o JoinSpace(Tail(parts))

\* the parts that are not empty
RECURSIVE NonEmpty(_)
NonEmpty(parts) ==
    IF Len(parts) = 0 THEN <<>>
    ELSE IF parts[1] = <<>> THEN NonEmpty(Tail(parts))
    ELSE <<parts[1]>> \o NonEmpty(Tail(parts))

\* the last call met a command line of two physical lines or more, all but
\* the last ending in a backslash
WrappedCommand ==
    /\ mode = "replay" /\ last.call \in {"step", "Next"}
    /\ CmdFirst > 0 /\ CmdLast > CmdFirst

\* the command line the last call met ends, with a backslash, on the last line
\* of the source
BackslashAtEnd ==
    /\ mode = "replay" /\ last.call \in {"step", "Next"}
    /\ CmdFirst > 0
    /\ Wraps(ScanLines(source)[CmdLast])

\* the separator is looked for on the line after the command line
SeparatorAfterCommand ==
    last.err = ErrNoSeparator <=>
        ~(/\ CmdLast + 1 <= Len(ScanLines(source))
          /\ ScanLines(source)[CmdLast + 1] = SEP)

\* C19: line continuation.  A command written over two physical lines or
\* more, each but the last ending in a backslash, is parsed as the contents of
\* the lines (backslash removed, trimmed) joined by one space each, and the
\* separator is expected on the line after the last of them; when the last
\* line of the source ends in a backslash the call fails with a grammar error.
C19_LineContinuation ==
    /\ (WrappedCommand /\ ~BackslashAtEnd) =>
          LET lines == ScanLines(source)
          IN  /\ last.op.command = TrimSpace(JoinSpace(Parts(lines, CmdFirst, CmdLast)))
              /\ SeparatorAfterCommand
    /\ BackslashAtEnd =>
          /\ ~last.found /\ ~last.visited
          /\ last.err = ErrNoSeparator

\* C19, amended: the command is the contents that are not empty, joined by
\* one space each: a physical line that holds nothing but its backslash (or a
\* blank last line) adds neither text nor a space.
C19_LineContinuationNonEmpty ==
    /\ (WrappedCommand /\ ~BackslashAtEnd) =>
          LET lines == ScanLines(source)
          IN  /\ last.op.command = JoinSpace(NonEmpty(Parts(lines, CmdFirst, CmdLast)))
              /\ SeparatorAfterCommand
    /\ BackslashAtEnd =>
          /\ ~last.found /\ ~last.visited
          /\ last.err = ErrNoSeparator

\* C19 witness: a command over three lines, the second a lone backslash, was
\* parsed as "a b"
C19_Witness ==
    /\ WrappedCommand /\ last.call = "step"
    /\ CmdLast = CmdFirst + 2
    /\ Parts(ScanLines(source), CmdFirst, CmdLast) = <<<<"a">>, <<>>, <<"b">>>>
    /\ last.found
    /\ last.op.command = <<"a", " ", "b">>

\* the lines of an output after one trailing newline is stripped
LinesOf(output) == SplitNL(TrimSuffix(output, <<NL>>))

\* some line of the output is empty
HasEmptyLine(output) == \E i \in 1..Len(LinesOf(output)) : LinesOf(output)[i] = <<>>

\* the output as the body of a record: ended by a newline unless empty
BodyOf(output) ==
    IF output # <<>> /\ ~HasSuffix(output, <<NL>>) THEN output \o <<NL>> ELSE output

\* a text that ends with one blank line and no more
EndsWithOneBlankLine(text) ==
    /\ HasSuffix(text, <<NL, NL>>)
    /\ ~HasSuffix(text, <<NL, NL, NL>>)

\* C20: choice of escape form.  The text written for an operation is the
\* escaped form ("----" before the body, two "----" lines after it) when some
\* line of the output, one trailing newline stripped, is empty, and the plain
\* form when none is; in both forms it ends with exactly one blank line.
C20_EscapeChoice ==
    (pc = "written" /\ last.call = "record" /\ last.err = nil) =>
        LET o == last.op
        IN  /\ writer =
                  IF HasEmptyLine(o.output)
                  THEN o.command \o <<NL>> \o SEP \o <<NL>> \o SEP \o <<NL>>
                       \o BodyOf(o.output) \o SEP \o <<NL>> \o SEP \o <<NL, NL>>
                  ELSE o.command \o <<NL>> \o SEP \o <<NL>> \o BodyOf(o.output) \o <<NL>>
            /\ EndsWithOneBlankLine(writer)

\* C21: invariant of every parsed operation.  Whenever the visitor is called,
\* the command of the operation is not empty and has no leading or trailing
\* white space, and its output is empty or ends with a newline; an output read
\* in plain form has no blank line (empty, or of white space only).
C21_ParsedOperation ==
    (mode = "replay" /\ last.call \in {"step", "Next"} /\ last.visited) =>
        /\ last.op.command # <<>>
        /\ TrimSpace(last.op.command) = last.op.command
        /\ last.op.output = <<>> \/ HasSuffix(last.op.output, <<NL>>)
        /\ (PlainBlock /\ last.op.output # <<>>) =>
              \A i \in 1..Len(LinesOf(last.op.output)) :
                  TrimSpace(LinesOf(last.op.output)[i]) # <<>>

\* C21 witness: a command line with a leading space and a plain output of one
\* line that the source ends with
C21_Witness ==
    /\ mode = "replay" /\ last.call = "step" /\ last.visited /\ last.found
    /\ PlainBlock
    /\ ScanLines(source)[CmdFirst] = <<" ", "b">>
    /\ last.op.command = <<"b">>
    /\ PlainFirst = Len(ScanLines(source))
    /\ last.op.output = <<"a", NL>>

\* the lines of the first n records of the recording
LinesOfRecords(n) == Len(ScanLines(Concat([i \in 1..n |-> recorded[i].text])))

\* C22: replay is single-pass and forward-only.  Over a well-formed recording
\* of N operations, whatever the calls are (step or Next) and whatever they
\* return, call i <= N is handed operation i and leaves the scanner on the
\* last line of record i, so no operation is handed to two calls and none out
\* of order; a Next that fails with a mismatch has consumed the operation it
\* refused.  Calls after the N-th are handed no operation.
C22_SinglePass ==
    (WellFormedRecording /\ mode = "replay" /\ last.call \in {"step", "Next"}
     /\ calls >= 1) =>
        IF calls <= Len(recorded)
        THEN /\ last.visited
             /\ last.op = opOf(recorded[calls])
             /\ last.lineBefore = LinesOfRecords(calls - 1)
             /\ scanner.line = LinesOfRecords(calls)
        ELSE /\ ~last.visited
             /\ scanner.line = LinesOfRecords(Len(recorded))

\* C22 witness: a Next with another command than that of the first of two
\* operations failed with the mismatch error, and the scanner is on the last
\* line of the first record
C22_Witness ==
    /\ WellFormedRecording /\ mode = "replay"
    /\ Len(recorded) = 2 /\ calls = 1
    /\ last.call = "Next" /\ last.err = ErrMismatch
    /\ last.op = opOf(recorded[1])
    /\ scanner.line = LinesOfRecords(1)
    /\ scanner.line < Len(ScanLines(source))

\* the lines the scanner yielded between two positions of the source
Yielded(from, to) == SubSeq(ScanLines(source), from + 1, to)

\* C23: across any sequence of step and Next calls of a replay Recorder the
\* scanner's line number never decreases and never passes the number of lines
\* of the source, and the line it holds is the one with that number; a call
\* starts scanning where the call before it stopped, so that no line is
\* yielded twice; and a line contributes to one operation only: the operation
\* a call parses, its error and the lines it consumes are those that parsing
\* the lines yielded during this call alone gives.
C23_ScannerPosition ==
    [][(mode' = "replay" /\ last'.call \in {"step", "Next"}) =>
          /\ scanner'.line >= scanner.line
          /\ scanner'.line <= Len(ScanLines(source))
          /\ last'.lineBefore = scanner.line
          /\ scanner'.text # <<>> => scanner'.text = ScanLines(source)[scanner'.line]
          /\ \A alone \in {parseOperation(Yielded(scanner.line, scanner'.line),
                                           newScanner, op)} :
                /\ alone.sc.line = scanner'.line - scanner.line
                /\ alone.parsed = last'.visited
                /\ alone.op = op'
                /\ alone.err # nil => last'.err = alone.err]_vars

\* C23 witness: the second call of a replay Recorder parsed an operation from
\* lines past those the first call consumed, and its output, which has an
\* empty line, was read between two pairs of "----" lines
C23_Witness ==
    /\ mode = "replay" /\ calls = 2
    /\ last.call \in {"step", "Next"} /\ last.visited
    /\ last.lineBefore >= 2
    /\ HasEmptyLine(last.op.output)
    /\ scanner.line >= last.lineBefore + 2
    /\ scanner.line <= Len(ScanLines(source))

\* the lines the scanner has not yielded yet, and the steps a call can take
\* before it needs one of them
Remaining == Len(ScanLines(source)) - scanner.line

Variant ==
    3 * Remaining + (IF pc = "wrap" THEN 2 ELSE IF pc = "command" THEN 1 ELSE 0)

\* a call is in progress
InCall == pc \in {"seek", "wrap", "command", "plain", "escaped"}

\* a step from the head of a loop into its body that does not leave the call
LoopIteration ==
    /\ pc' # "idle"
    /\ \/ pc = "seek" /\ pc' \in {"seek", "wrap"}
       \/ pc = "wrap" /\ pc' = "wrap"
       \/ pc = "plain" /\ pc' = "plain"
       \/ pc = "escaped" /\ pc' = "escaped"

\* C24: on every finite source each step or Next call of a replay Recorder
\* terminates: every iteration of the loop that seeks a command, of the loop
\* that joins wrapped lines and of the two loops that read the output
\* consumes at least one line, no step of a call goes back in the source, the
\* steps left to a call are bounded by the lines left, and a call in progress
\* always returns; it returns what step (or Next) returns, which is found=true,
\* found=false or an error; and a step called after the source is exhausted
\* returns found=false and no error without consuming anything.
C24_Termination ==
    /\ [][/\ LoopIteration => scanner'.line > scanner.line
          /\ InCall => /\ scanner'.line >= scanner.line
                       /\ scanner'.line <= Len(ScanLines(source))
                       /\ pc' = "idle" \/ Variant' < Variant
          /\ (InCall /\ pc' = "idle") =>
                /\ last'.expect = [found |-> last'.found, err |-> last'.err,
                                   visited |-> last'.visited, op |-> op',
                                   line |-> scanner'.line]
                /\ last'.err = nil \/ ~last'.found
                /\ (last'.call = "step" /\ last'.lineBefore = Len(ScanLines(source))) =>
                      /\ ~last'.found /\ last'.err = nil
                      /\ scanner'.line = last'.lineBefore]_vars
    /\ InCall ~> (pc = "idle")

\* C24 witness: a step was called after an earlier call had consumed the last
\* line of a source of MaxLines lines, and returned found=false and no error
C24_Witness ==
    /\ pc = "idle" /\ calls = 2
    /\ last.call = "step"
    /\ Len(ScanLines(source)) = MaxLines
    /\ last.lineBefore = Len(ScanLines(source))
    /\ ~last.found /\ last.err = nil
    /\ scanner.line = last.lineBefore

=============================================================================
